---- MODULE Spec2Model ----
(***************************************************************************)
(* Model of finetune/adapter.py: the module-level hyperparameters, main    *)
(* and the training loop of train (warmup, gradient accumulation,          *)
(* optimizer steps, instrumentation, periodic validation and periodic      *)
(* checkpointing), followed by the final checkpoint save of main.          *)
(*                                                                         *)
(* Abstractions.  The learning rate is an exact fraction num/den (the      *)
(* rounding of IEEE doubles is not modelled).  A parameter value is        *)
(* identified by the sequence of gradient buffers the optimizer applied to *)
(* it; a gradient buffer is the set of iteration indices whose backward    *)
(* pass contributed to it (each contribution scaled by                     *)
(* 1/gradient_accumulation_iters).                                         *)
(***************************************************************************)
EXTENDS Integers, Sequences, FiniteSets

\* ---------------------------------------------------------------- bounds
MaxBatchSize == 16
MaxMicroBatchSize == 2
MaxEpochSize == 4
MaxNumEpochs == 5
MaxSaveInterval == 2
MaxEvalInterval == 2
\* get_batch taken alone: longest sequence and largest dataset
MaxSeqLen == 2
MaxData == 2
\* data-parallel run: workers, iterations and accumulation group size
NumWorkers == 2
MaxWorkerIters == 3
MaxAccum == 2

\* ------------------------------------------------------ program constants
\* learning_rate = 9e-3, in units of 1e-3
learning_rate == 9
devices == 1

VARIABLES
    pc,          \* position of the (single) worker in the program
    hp,          \* the module-level hyperparameters (hparams)
    iter_num,    \* loop variable of train
    step_count,  \* number of optimizer steps taken
    lr,          \* param_group["lr"] of the optimizer, a fraction [num, den]
    is_accumulating,
    params,      \* adapter parameter value: sequence of applied gradient buffers
    grads,       \* gradient buffer: set of contributing iteration indices
    seen,        \* parameter value observed by the latest forward pass
    training,    \* model.training
    lr_hist,     \* learning rates written by the warmup branch: [step, lr]
    ckpts,       \* checkpoints written, in order: [name, params]
    log,         \* operations performed, in order: [op, iter, step]
    requires_grad, \* requires_grad of every named parameter of the model
    weights,     \* value of every named parameter: applied gradient buffers
    now,         \* time.time(), a logical clock
    total_t0,    \* train.total_t0
    reports,     \* calls of speed_monitor.on_train_batch_end, in order
    eval_ends,   \* durations passed to speed_monitor.eval_end, in order
    backward_calls, \* calls of fabric.backward: [iter, div, sync]
    batch_in,    \* arguments and globals of one call of get_batch
    batch_out,   \* its outcome: [status, ix, x, y]
    workers,     \* data-parallel run: position and counters of every worker
    collectives  \* data-parallel run: collective operations completed, in order

vars == <<pc, hp, iter_num, step_count, lr, is_accumulating, params, grads,
          seen, training, lr_hist, ckpts, log, requires_grad, weights,
          now, total_t0, reports, eval_ends, backward_calls,
          batch_in, batch_out, workers, collectives>>

\* the variables of get_batch taken alone and of the data-parallel run
auxVars == <<batch_in, batch_out, workers, collectives>>

\* the variables of the single-worker run, the hyperparameters aside
soloVars == <<pc, iter_num, step_count, lr, is_accumulating, params, grads,
              seen, training, lr_hist, ckpts, log, requires_grad, weights,
              now, total_t0, reports, eval_ends, backward_calls>>

\* ------------------------------------------------------- pure functions
\* variant: the quotient rounded up instead of down
GradientAccumulationIters_ceil(batch_size, micro_batch_size) ==
    (batch_size + micro_batch_size - 1) \div micro_batch_size

\* batch_size // micro_batch_size
GradientAccumulationIters(batch_size, micro_batch_size) ==
    batch_size \div micro_batch_size

\* num_epochs * (epoch_size // micro_batch_size) // devices
MaxIters(num_epochs, epoch_size, micro_batch_size) ==
    (num_epochs * (epoch_size \div micro_batch_size)) \div devices

\* 2 * (epoch_size // micro_batch_size) // devices
WarmupIters(epoch_size, micro_batch_size) ==
    (2 * (epoch_size \div micro_batch_size)) \div devices

\* variant: the warmup branch is left one step early
InWarmup_strict(sc, warmup_iters) == sc < warmup_iters

\* the guard of the warmup branch
InWarmup(sc, warmup_iters) == sc <= warmup_iters

\* learning_rate * step_count / warmup_iters
WarmupLr(sc, warmup_iters) == [num |-> learning_rate * sc, den |-> warmup_iters]

\* variant: the group ends at iter_num % G == 0
IsAccumulating_offbyone(i, G) == i % G # 0

\* (iter_num + 1) % gradient_accumulation_iters != 0
IsAccumulating(i, G) == (i + 1) % G # 0

\* variant: the test of is_accumulating is left out
ShouldValidate_noacc(acc, sc, eval_interval) == sc % eval_interval = 0

\* not is_accumulating and step_count % eval_interval == 0
ShouldValidate(acc, sc, eval_interval) == ~acc /\ sc % eval_interval = 0

\* variant: the test of is_accumulating is left out
ShouldSave_noacc(acc, sc, save_interval) == sc % save_interval = 0

\* variant: the interval is counted from the step before
ShouldSave_offbyone(acc, sc, save_interval) ==
    ~acc /\ (sc - 1) % save_interval = 0

\* not is_accumulating and step_count % save_interval == 0
ShouldSave(acc, sc, save_interval) == ~acc /\ sc % save_interval = 0

\* out_dir / f"iter-{iter_num:06d}-ckpt.pth"
IterCkptName(i) == <<"iter", i>>

\* out_dir / "lit_model_adapter_finetuned.pth"
FinalCkptName == <<"lit_model_adapter_finetuned">>

RECURSIVE Digits(_)
\* the decimal digits of n >= 0
Digits(n) == IF n < 10 THEN <<n>> ELSE Digits(n \div 10) \o <<n % 10>>

RECURSIVE ZeroPad(_, _)
\* d padded with zeros on the left to at least width digits
ZeroPad(d, width) == IF Len(d) >= width THEN d ELSE ZeroPad(<<0>> \o d, width)

\* f"{iter_num:06d}"
Format06d(n) == ZeroPad(Digits(n), 6)

\* variant: every periodic checkpoint goes to the same file
CkptPath_latest(name) ==
    IF name = FinalCkptName
    THEN <<"lit_model_adapter_finetuned.pth">>
    ELSE <<"iter-", "ckpt.pth">>

\* the file a checkpoint is written to: out_dir / f"iter-{iter_num:06d}-ckpt.pth"
\* or out_dir / "lit_model_adapter_finetuned.pth"
CkptPath(name) ==
    IF name = FinalCkptName
    THEN <<"lit_model_adapter_finetuned.pth">>
    ELSE <<"iter-">> \o Format06d(name[2]) \o <<"-ckpt.pth">>

\* the named parameters of the model (Parrot with adapter layers)
ParamNames ==
    {<<"lm_head", "weight">>,
     <<"transformer", "wte", "weight">>,
     <<"transformer", "h", "attn", "attn", "weight">>,
     <<"transformer", "h", "attn", "adapter_wte", "weight">>,
     <<"transformer", "h", "attn", "gating_factor">>}

\* lit_parrot.adapter.adapter_filter: the name-matching predicate
AdapterFilter(key) ==
    \E j \in DOMAIN key : key[j] \in {"adapter_wte", "gating_factor"}

\* lit_parrot.adapter.mark_only_adapter_as_trainable: requires_grad is set on
\* the adapter parameters and cleared on all others
MarkOnlyAdapterAsTrainable == [n \in ParamNames |-> AdapterFilter(n)]

\* optimizer.step() of AdamW over model.parameters(): a parameter without a
\* gradient (requires_grad = False) is skipped
AdamWStep(w, rg, g) ==
    [n \in ParamNames |-> IF rg[n] THEN Append(w[n], g) ELSE w[n]]

\* fabric.save(file_path, {"model": model}, filter=adapter_filter)
FilteredState(w) == [n \in {m \in ParamNames : AdapterFilter(m)} |-> w[n]]

\* fabric.backward(loss / gradient_accumulation_iters): the gradient of
\* iteration i is added to the buffer
Backward(g, i) == g \cup {i}

\* variant: the gradients are not reset
ZeroGrad_keep(g) == g

\* optimizer.zero_grad()
ZeroGrad(g) == {}

\* variant: the size of one micro-batch is reported every time
SamplesProcessed_perbatch(i, micro_batch_size) == micro_batch_size

\* (iter_num + 1) * micro_batch_size
SamplesProcessed(i, micro_batch_size) == (i + 1) * micro_batch_size

\* t1 - total_t0
TrainElapsed(t1, t0) == t1 - t0

\* fabric.no_backward_sync(model, enabled=is_accumulating): gradients are
\* synchronized in the backward pass unless the iteration is accumulating
BackwardSync(acc) == ~acc

Event(op) == [op |-> op, iter |-> iter_num, step |-> step_count]

\* --------------------------------------------------------------- Init
NoHparams ==
    [batch_size |-> 0, micro_batch_size |-> 0, gradient_accumulation_iters |-> 0,
     epoch_size |-> 0, num_epochs |-> 0, max_iters |-> 0, warmup_iters |-> 0,
     save_interval |-> 0, eval_interval |-> 0]

NoBatchIn ==
    [data |-> <<>>, micro_batch_size |-> 0, device |-> "cuda",
     max_seq_length |-> 0]

NoBatchOut == [status |-> "none", ix |-> <<>>, x |-> <<>>, y |-> <<>>]

\* the single-worker run before the module is imported
InitSolo ==
    /\ pc = "import"
    /\ iter_num = 0
    /\ step_count = 0
    /\ lr = [num |-> 0, den |-> 1]
    /\ is_accumulating = FALSE
    /\ params = <<>>
    /\ grads = {}
    /\ seen = <<>>
    /\ training = TRUE
    /\ lr_hist = <<>>
    /\ ckpts = <<>>
    /\ log = <<>>
    /\ requires_grad = [n \in ParamNames |-> TRUE]
    /\ weights = [n \in ParamNames |-> <<>>]
    /\ now = 0
    /\ total_t0 = 0
    /\ reports = <<>>
    /\ eval_ends = <<>>
    /\ backward_calls = <<>>

Init ==
    /\ InitSolo
    /\ hp = NoHparams
    /\ batch_in = NoBatchIn
    /\ batch_out = NoBatchOut
    /\ workers = <<>>
    /\ collectives = <<>>

\* -------------------------------------------------------------- actions
\* Module level, lines 26-42: the hyperparameters and the assertion.
ModuleInit ==
    /\ pc = "import"
    /\ UNCHANGED auxVars
    /\ \E b \in 1..MaxBatchSize, m \in 1..MaxMicroBatchSize,
          e \in 1..MaxEpochSize, n \in 1..MaxNumEpochs,
          s \in 1..MaxSaveInterval, ev \in 1..MaxEvalInterval :
         LET G == GradientAccumulationIters(b, m) IN
         /\ hp' = [batch_size |-> b, micro_batch_size |-> m,
                   gradient_accumulation_iters |-> G,
                   epoch_size |-> e, num_epochs |-> n,
                   max_iters |-> MaxIters(n, e, m),
                   warmup_iters |-> WarmupIters(e, m),
                   save_interval |-> s, eval_interval |-> ev]
         /\ pc' = IF G > 0 THEN "main" ELSE "aborted"
    /\ UNCHANGED <<now, total_t0, reports, eval_ends, backward_calls>>
    /\ UNCHANGED <<requires_grad, weights>>
    /\ UNCHANGED <<iter_num, step_count, lr, is_accumulating, params, grads,
                   seen, training, lr_hist, ckpts, log>>

\* variant: mark_only_adapter_as_trainable is not called
Main_nomark ==
    /\ pc = "main"
    /\ UNCHANGED auxVars
    /\ lr' = [num |-> learning_rate, den |-> 1]
    /\ pc' = "sanity"
    /\ UNCHANGED <<now, total_t0, reports, eval_ends, backward_calls>>
    /\ UNCHANGED <<requires_grad, weights>>
    /\ UNCHANGED <<hp, iter_num, step_count, is_accumulating, params, grads,
                   seen, training, lr_hist, ckpts, log>>

\* main, lines 76-111: the model is loaded (base parameters from the
\* checkpoint), only the adapter parameters are marked trainable, and the
\* optimizer is constructed over model.parameters() with lr=learning_rate;
\* then train is called.
Main ==
    /\ pc = "main"
    /\ UNCHANGED auxVars
    /\ requires_grad' = MarkOnlyAdapterAsTrainable
    /\ lr' = [num |-> learning_rate, den |-> 1]
    /\ pc' = "sanity"
    /\ UNCHANGED <<now, total_t0, reports, eval_ends, backward_calls>>
    /\ UNCHANGED weights
    /\ UNCHANGED <<hp, iter_num, step_count, is_accumulating, params, grads,
                   seen, training, lr_hist, ckpts, log>>

\* variant: model.train() is not called before returning
Validate_notrain == training' = FALSE

\* validate, lines 205-233: model.eval() ... model.train(); runs under
\* torch.no_grad(), so it leaves parameters, gradients and optimizer alone.
Validate == training' = TRUE

\* train, lines 130-150: the sanity-check validation (one tick of the
\* clock), step_count = 0, total_t0 = time.time().
SanityValidate ==
    /\ pc = "sanity"
    /\ UNCHANGED auxVars
    /\ Validate
    /\ log' = Append(log, Event("sanity_validate"))
    /\ step_count' = 0
    /\ now' = now + 1
    /\ total_t0' = now'
    /\ pc' = "loop"
    /\ UNCHANGED <<reports, eval_ends, backward_calls>>
    /\ UNCHANGED <<requires_grad, weights>>
    /\ UNCHANGED <<hp, iter_num, lr, is_accumulating, params, grads, seen,
                   lr_hist, ckpts>>

\* train, lines 151-160: loop test, warmup and batch fetch.
IterBegin ==
    /\ pc = "loop"
    /\ UNCHANGED auxVars
    /\ iter_num < hp.max_iters
    /\ IF InWarmup(step_count, hp.warmup_iters)
       THEN /\ lr' = WarmupLr(step_count, hp.warmup_iters)
            /\ lr_hist' = Append(lr_hist, [step |-> step_count, lr |-> lr'])
       ELSE UNCHANGED <<lr, lr_hist>>
    /\ log' = Append(log, Event("get_batch"))
    /\ pc' = "forward"
    /\ UNCHANGED <<now, total_t0, reports, eval_ends, backward_calls>>
    /\ UNCHANGED <<requires_grad, weights>>
    /\ UNCHANGED <<hp, iter_num, step_count, is_accumulating, params, grads,
                   seen, training, ckpts>>

\* train, lines 162-166: forward pass, loss and backward pass (one tick of
\* the clock).
ForwardBackward ==
    /\ pc = "forward"
    /\ UNCHANGED auxVars
    /\ is_accumulating' = IsAccumulating(iter_num, hp.gradient_accumulation_iters)
    /\ seen' = params
    /\ grads' = Backward(grads, iter_num)
    /\ log' = Append(log, Event("forward"))
    /\ backward_calls' = Append(backward_calls,
          [iter |-> iter_num, div |-> hp.gradient_accumulation_iters,
           sync |-> BackwardSync(is_accumulating')])
    /\ now' = now + 1
    /\ pc' = "step"
    /\ UNCHANGED <<total_t0, reports, eval_ends>>
    /\ UNCHANGED <<requires_grad, weights>>
    /\ UNCHANGED <<hp, iter_num, step_count, lr, params, training, lr_hist, ckpts>>

\* train, lines 168-175: optimizer.step(), optimizer.zero_grad(), step_count += 1.
OptimizerStep ==
    /\ pc = "step"
    /\ UNCHANGED auxVars
    /\ IF ~is_accumulating
       THEN /\ params' = Append(params, grads)
            /\ weights' = AdamWStep(weights, requires_grad, grads)
            /\ grads' = ZeroGrad(grads)
            /\ step_count' = step_count + 1
            /\ log' = Append(log, [op |-> "optimizer_step", iter |-> iter_num,
                                   step |-> step_count + 1])
       ELSE UNCHANGED <<params, weights, grads, step_count, log>>
    /\ pc' = "monitor"
    /\ UNCHANGED <<now, total_t0, reports, eval_ends, backward_calls>>
    /\ UNCHANGED requires_grad
    /\ UNCHANGED <<hp, iter_num, lr, is_accumulating, seen, training, lr_hist, ckpts>>

\* train, lines 177-191: speed_monitor.on_train_batch_end and the log line.
Instrument ==
    /\ pc = "monitor"
    /\ UNCHANGED auxVars
    /\ log' = Append(log, Event("on_train_batch_end"))
    /\ reports' = Append(reports,
          [iter |-> iter_num,
           samples |-> SamplesProcessed(iter_num, hp.micro_batch_size),
           elapsed |-> TrainElapsed(now, total_t0),
           t1 |-> now, evals |-> Len(eval_ends)])
    /\ pc' = "eval"
    /\ UNCHANGED <<now, total_t0, eval_ends, backward_calls>>
    /\ UNCHANGED <<requires_grad, weights>>
    /\ UNCHANGED <<hp, iter_num, step_count, lr, is_accumulating, params, grads,
                   seen, training, lr_hist, ckpts>>

\* train, lines 193-199: periodic validation (one tick of the clock), its
\* duration passed to speed_monitor.eval_end, followed by fabric.barrier().
PeriodicValidate ==
    /\ pc = "eval"
    /\ UNCHANGED auxVars
    /\ IF ShouldValidate(is_accumulating, step_count, hp.eval_interval)
       THEN /\ Validate
            /\ now' = now + 1
            /\ eval_ends' = Append(eval_ends, now' - now)
            /\ log' = log \o <<Event("validate"), Event("barrier")>>
       ELSE UNCHANGED <<training, log, now, eval_ends>>
    /\ pc' = "save"
    /\ UNCHANGED <<total_t0, reports, backward_calls>>
    /\ UNCHANGED <<requires_grad, weights>>
    /\ UNCHANGED <<hp, iter_num, step_count, lr, is_accumulating, params, grads,
                   seen, lr_hist, ckpts>>

\* variant: the whole model is saved, without the filter
SaveAdapterCheckpoint_nofilter(file_path) ==
    ckpts' = Append(ckpts, [name |-> file_path, path |-> CkptPath(file_path), params |-> params,
                            state |-> weights])

\* variant: the parameters saved are those seen by the forward pass, before
\* the optimizer step of the iteration
SaveAdapterCheckpoint_stale(file_path) ==
    ckpts' = Append(ckpts, [name |-> file_path, path |-> CkptPath(file_path), params |-> seen,
                            state |-> FilteredState(weights)])

\* save_adapter_checkpoint, lines 268-270.
SaveAdapterCheckpoint(file_path) ==
    ckpts' = Append(ckpts, [name |-> file_path, path |-> CkptPath(file_path), params |-> params,
                            state |-> FilteredState(weights)])

\* train, lines 200-202: periodic checkpoint; then the next loop iteration.
PeriodicSave ==
    /\ pc = "save"
    /\ UNCHANGED auxVars
    /\ IF ShouldSave(is_accumulating, step_count, hp.save_interval)
       THEN /\ SaveAdapterCheckpoint(IterCkptName(iter_num))
            /\ log' = Append(log, Event("save"))
       ELSE UNCHANGED <<ckpts, log>>
    /\ iter_num' = iter_num + 1
    /\ pc' = "loop"
    /\ UNCHANGED <<now, total_t0, reports, eval_ends, backward_calls>>
    /\ UNCHANGED <<requires_grad, weights>>
    /\ UNCHANGED <<hp, step_count, lr, is_accumulating, params, grads, seen,
                   training, lr_hist>>

\* variant: a trailing partial group is flushed by one more optimizer step
LoopExit_flush ==
    /\ pc = "loop"
    /\ UNCHANGED auxVars
    /\ iter_num >= hp.max_iters
    /\ params' = IF grads # {} THEN Append(params, grads) ELSE params
    /\ grads' = {}
    /\ pc' = "final_save"
    /\ UNCHANGED <<now, total_t0, reports, eval_ends, backward_calls>>
    /\ UNCHANGED <<requires_grad, weights>>
    /\ UNCHANGED <<hp, iter_num, step_count, lr, is_accumulating, seen,
                   training, lr_hist, ckpts, log>>

\* train returns when range(max_iters) is exhausted (line 151).
LoopExit ==
    /\ pc = "loop"
    /\ UNCHANGED auxVars
    /\ iter_num >= hp.max_iters
    /\ pc' = "final_save"
    /\ UNCHANGED <<now, total_t0, reports, eval_ends, backward_calls>>
    /\ UNCHANGED <<requires_grad, weights>>
    /\ UNCHANGED <<hp, iter_num, step_count, lr, is_accumulating, params, grads,
                   seen, training, lr_hist, ckpts, log>>

\* variant: no final checkpoint when the last iteration's state says a
\* periodic one was due
FinalSave_unlesssaved ==
    /\ pc = "final_save"
    /\ UNCHANGED auxVars
    /\ IF ShouldSave(is_accumulating, step_count, hp.save_interval)
       THEN UNCHANGED ckpts
       ELSE SaveAdapterCheckpoint(FinalCkptName)
    /\ log' = Append(log, Event("final_save"))
    /\ pc' = "done"
    /\ UNCHANGED <<now, total_t0, reports, eval_ends, backward_calls>>
    /\ UNCHANGED <<requires_grad, weights>>
    /\ UNCHANGED <<hp, iter_num, step_count, lr, is_accumulating, params, grads,
                   seen, training, lr_hist>>

\* main, lines 114-116: the final checkpoint.
FinalSave ==
    /\ pc = "final_save"
    /\ UNCHANGED auxVars
    /\ SaveAdapterCheckpoint(FinalCkptName)
    /\ log' = Append(log, Event("final_save"))
    /\ pc' = "done"
    /\ UNCHANGED <<now, total_t0, reports, eval_ends, backward_calls>>
    /\ UNCHANGED <<requires_grad, weights>>
    /\ UNCHANGED <<hp, iter_num, step_count, lr, is_accumulating, params, grads,
                   seen, training, lr_hist>>

Next ==
    \/ ModuleInit
    \/ Main
    \/ SanityValidate
    \/ IterBegin
    \/ ForwardBackward
    \/ OptimizerStep
    \/ Instrument
    \/ PeriodicValidate
    \/ PeriodicSave
    \/ LoopExit
    \/ FinalSave

Spec == Init /\ [][Next]_vars

\* ------------------------------------------------------------ get_batch
\* token ids of the examples: get_batch reads only the lengths of the
\* sequences, and a token differs from the padding 0 of inputs and -1 of
\* targets
InputTokens == {1}
LabelTokens == {1}

\* the non-empty sequences over S of length at most n
SeqsUpTo(S, n) == UNION {[1..k -> S] : k \in 1..n}

\* the examples of a dataset: data[i]["input_ids"], data[i]["labels"]
Examples ==
    [input_ids : SeqsUpTo(InputTokens, MaxSeqLen),
     labels : SeqsUpTo(LabelTokens, MaxSeqLen)]

\* max(len(s) for s in input_ids)
MaxLenOf(seqs) ==
    CHOOSE n \in {Len(seqs[r]) : r \in DOMAIN seqs} :
       \A r \in DOMAIN seqs : Len(seqs[r]) <= n

\* max_len of get_batch, line 250
BatchMaxLen(input_ids, device, max_seq_length) ==
    IF device # "xla" THEN MaxLenOf(input_ids) ELSE max_seq_length

\* variant: the padding goes in front of the sequence
PadRight_left(x, pad_id, max_len) ==
    [j \in 1..(max_len - Len(x)) |-> pad_id] \o x

\* pad_right, lines 252-255, for max_len >= len(x)
PadRight(x, pad_id, max_len) ==
    x \o [j \in 1..(max_len - Len(x)) |-> pad_id]

\* get_batch, lines 244-265, for the drawn indices ix; torch.full raises on
\* a negative size n = max_len - len(x)
GetBatch(in, ix) ==
    LET rows == 1..in.micro_batch_size
        input_ids == [r \in rows |-> in.data[ix[r]].input_ids]
        labels == [r \in rows |-> in.data[ix[r]].labels]
        max_len == BatchMaxLen(input_ids, in.device, in.max_seq_length)
    IN  IF \E r \in rows : max_len - Len(input_ids[r]) < 0
                            \/ max_len - Len(labels[r]) < 0
        THEN [status |-> "error", ix |-> ix, x |-> <<>>, y |-> <<>>]
        ELSE [status |-> "ok", ix |-> ix,
              x |-> [r \in rows |-> PadRight(input_ids[r], 0, max_len)],
              y |-> [r \in rows |-> PadRight(labels[r], -1, max_len)]]

\* a dataset, a micro-batch size, a device and a max_seq_length
InitBatch ==
    /\ InitSolo
    /\ hp = NoHparams
    /\ workers = <<>>
    /\ collectives = <<>>
    /\ batch_out = NoBatchOut
    /\ \E k \in 1..MaxData :
         \E d \in [1..k -> Examples], m \in 1..MaxMicroBatchSize,
            dev \in {"cuda", "xla"}, msl \in 1..MaxSeqLen :
            batch_in = [data |-> d, micro_batch_size |-> m, device |-> dev,
                        max_seq_length |-> msl]

\* one call of get_batch: ix = torch.randint(len(data), (micro_batch_size,))
CallGetBatch ==
    /\ batch_out.status = "none"
    /\ \E ix \in [1..batch_in.micro_batch_size -> 1..Len(batch_in.data)] :
         batch_out' = GetBatch(batch_in, ix)
    /\ UNCHANGED <<batch_in, workers, collectives, hp>>
    /\ UNCHANGED soloVars

NextBatch == CallGetBatch

SpecBatch == InitBatch /\ [][NextBatch]_vars

\* ---------------------------------------------------- data-parallel run
\* One process per device runs main and train with the same hyperparameters
\* (fabric.launch, line 73).  A worker blocks in a collective operation until
\* every worker has entered the same one: the gradient synchronization of a
\* non-accumulating backward pass, fabric.barrier() and fabric.save.
Workers == 0..(NumWorkers - 1)

CollectivePcs == {"sync", "barrier", "saving", "final"}

\* variant: only rank 0 runs the periodic validation
WorkerShouldValidate_rank0(w, acc, sc, eval_interval) ==
    w = 0 /\ ~acc /\ sc % eval_interval = 0

\* line 193, as evaluated by worker w
WorkerShouldValidate(w, acc, sc, eval_interval) ==
    ~acc /\ sc % eval_interval = 0

InitWorkers ==
    /\ InitSolo
    /\ batch_in = NoBatchIn
    /\ batch_out = NoBatchOut
    /\ collectives = <<>>
    /\ workers = [w \in Workers |->
                    [pc |-> "start", iter_num |-> 0, step_count |-> 0,
                     is_accumulating |-> FALSE]]
    /\ \E g \in 1..MaxAccum, n \in 0..MaxWorkerIters,
          s \in 1..MaxSaveInterval, ev \in 1..MaxEvalInterval :
         hp = [NoHparams EXCEPT !.gradient_accumulation_iters = g,
                                !.max_iters = n,
                                !.save_interval = s, !.eval_interval = ev]

WorkerFrame ==
    /\ UNCHANGED <<hp, batch_in, batch_out>>
    /\ UNCHANGED soloVars

\* train, lines 130-150: sanity validation, step_count = 0
WSanity(w) ==
    /\ workers[w].pc = "start"
    /\ workers' = [workers EXCEPT ![w].pc = "loop", ![w].step_count = 0]
    /\ UNCHANGED collectives
    /\ WorkerFrame

\* train, lines 151-166: an iteration up to the backward pass, which
\* synchronizes the gradients unless the iteration is accumulating
WForwardBackward(w) ==
    /\ workers[w].pc = "loop"
    /\ workers[w].iter_num < hp.max_iters
    /\ LET acc == IsAccumulating(workers[w].iter_num,
                                 hp.gradient_accumulation_iters)
       IN  workers' = [workers EXCEPT
                         ![w].is_accumulating = acc,
                         ![w].pc = IF BackwardSync(acc) THEN "sync" ELSE "step"]
    /\ UNCHANGED collectives
    /\ WorkerFrame

\* train, lines 168-191: optimizer step and instrumentation
WOptimizerStep(w) ==
    /\ workers[w].pc = "step"
    /\ workers' = [workers EXCEPT
                     ![w].step_count = IF workers[w].is_accumulating THEN @
                                       ELSE @ + 1,
                     ![w].pc = "eval"]
    /\ UNCHANGED collectives
    /\ WorkerFrame

\* train, lines 193-198: periodic validation, then on to fabric.barrier()
WValidate(w) ==
    /\ workers[w].pc = "eval"
    /\ workers' = [workers EXCEPT ![w].pc =
                     IF WorkerShouldValidate(w, workers[w].is_accumulating,
                                             workers[w].step_count,
                                             hp.eval_interval)
                     THEN "barrier" ELSE "save"]
    /\ UNCHANGED collectives
    /\ WorkerFrame

\* train, lines 200-202: periodic checkpoint (fabric.save) or next iteration
WSave(w) ==
    /\ workers[w].pc = "save"
    /\ workers' = IF ShouldSave(workers[w].is_accumulating,
                                workers[w].step_count, hp.save_interval)
                  THEN [workers EXCEPT ![w].pc = "saving"]
                  ELSE [workers EXCEPT ![w].pc = "loop",
                                       ![w].iter_num = @ + 1]
    /\ UNCHANGED collectives
    /\ WorkerFrame

\* line 151 exhausted; main, lines 114-116: on to the final fabric.save
WLoopExit(w) ==
    /\ workers[w].pc = "loop"
    /\ workers[w].iter_num >= hp.max_iters
    /\ workers' = [workers EXCEPT ![w].pc = "final"]
    /\ UNCHANGED collectives
    /\ WorkerFrame

\* where a worker continues after a collective operation
AfterCollective(r) ==
    CASE r.pc = "sync" -> [r EXCEPT !.pc = "step"]
      [] r.pc = "barrier" -> [r EXCEPT !.pc = "save"]
      [] r.pc = "saving" -> [r EXCEPT !.pc = "loop", !.iter_num = @ + 1]
      [] r.pc = "final" -> [r EXCEPT !.pc = "done"]

\* a collective operation completes once every worker has entered it
Collective(kind) ==
    /\ \A w \in Workers : workers[w].pc = kind
    /\ workers' = [w \in Workers |-> AfterCollective(workers[w])]
    /\ collectives' = Append(collectives,
          [kind |-> kind,
           iters |-> {workers[w].iter_num : w \in Workers},
           steps |-> {workers[w].step_count : w \in Workers}])
    /\ WorkerFrame

WorkerNext(w) ==
    \/ WSanity(w)
    \/ WForwardBackward(w)
    \/ WOptimizerStep(w)
    \/ WValidate(w)
    \/ WSave(w)
    \/ WLoopExit(w)

CollectiveNext == \E kind \in CollectivePcs : Collective(kind)

NextWorkers ==
    \/ \E w \in Workers : WSanity(w)
    \/ \E w \in Workers : WForwardBackward(w)
    \/ \E w \in Workers : WOptimizerStep(w)
    \/ \E w \in Workers : WValidate(w)
    \/ \E w \in Workers : WSave(w)
    \/ \E w \in Workers : WLoopExit(w)
    \/ CollectiveNext

\* every process keeps running, and a collective entered by all completes
SpecWorkers ==
    /\ InitWorkers /\ [][NextWorkers]_vars
    /\ \A w \in Workers : WF_vars(WorkerNext(w))
    /\ WF_vars(CollectiveNext)

\* ------------------------------------------------------------ type check
TypeOK ==
    /\ pc \in {"import", "aborted", "main", "sanity", "loop", "forward", "step",
               "monitor", "eval", "save", "final_save", "done"}
    /\ iter_num \in Nat
    /\ step_count \in Nat
    /\ is_accumulating \in BOOLEAN
    /\ training \in BOOLEAN

\* ------------------------------------------------- helpers of the claims
Accepted == pc \notin {"import", "aborted"}
G == hp.gradient_accumulation_iters
LoopFinished == pc \in {"final_save", "done"}

\* the events of the log with operation op
EventsOf(op) == {k \in DOMAIN log : log[k].op = op}
\* the events of the log with operation op that belong to iteration i
EventsIn(op, i) == {k \in DOMAIN log : log[k].op = op /\ log[k].iter = i}

\* number of iterations whose optimizer-step phase (lines 168-175) is over
ItersStepped == iter_num + (IF pc \in {"monitor", "eval", "save"} THEN 1 ELSE 0)

\* a < b, a <= b and a = b on fractions with positive denominators
FracLeq(a, b) == a.num * b.den <= b.num * a.den
FracEq(a, b) == a.num * b.den = b.num * a.den
BaseLr == [num |-> learning_rate, den |-> 1]

\* ------------------------------------------------------------------ C1
\* C1 (as stated): a configuration is accepted only when micro_batch_size
\* divides batch_size, gradient_accumulation_iters is then the quotient, and
\* every other configuration aborts before any iteration runs.
C1_AcceptedOnlyWhenDivisible ==
    /\ Accepted => /\ hp.batch_size % hp.micro_batch_size = 0
                   /\ G * hp.micro_batch_size = hp.batch_size
                   /\ G >= 1
    /\ pc = "aborted" => log = <<>> /\ iter_num = 0

\* C1 (amended): a configuration is accepted exactly when
\* micro_batch_size <= batch_size; gradient_accumulation_iters is then the
\* quotient rounded down, a positive integer; when
\* micro_batch_size > batch_size the assertion fails and no iteration, no
\* validation and no checkpoint save ever runs.
C1_AcceptedIffFloorQuotientPositive ==
    /\ Accepted => /\ hp.micro_batch_size <= hp.batch_size
                   /\ G >= 1
                   /\ G * hp.micro_batch_size <= hp.batch_size
                   /\ hp.batch_size < (G + 1) * hp.micro_batch_size
    /\ pc = "aborted" => /\ hp.micro_batch_size > hp.batch_size
                         /\ log = <<>> /\ ckpts = <<>> /\ iter_num = 0
                         /\ step_count = 0

\* a configuration whose micro_batch_size does not divide batch_size ran to
\* the end
C1_Witness ==
    /\ pc = "done"
    /\ hp.batch_size % hp.micro_batch_size # 0
    /\ hp.max_iters > 0 /\ iter_num = hp.max_iters

\* ------------------------------------------------------------------ C2
\* the optimizer step of iteration i, if any, is its only one and carries
\* the step count s
StepsIn(i) == EventsIn("optimizer_step", i)

\* C2: in every accumulation group of G iterations exactly one optimizer
\* step occurs, in the last iteration of the group, and it raises step_count
\* by exactly 1; an accumulating iteration leaves step_count unchanged;
\* after n iterations step_count = floor(n / G); step_count never decreases.
C2_OneStepPerGroupInv ==
    Accepted =>
      /\ step_count = ItersStepped \div G
      /\ Cardinality(EventsOf("optimizer_step")) = step_count
      /\ Len(params) = step_count
      /\ \A i \in 0..(ItersStepped - 1) :
            IF (i + 1) % G = 0
            THEN /\ Cardinality(StepsIn(i)) = 1
                 /\ \A k \in StepsIn(i) : log[k].step = (i + 1) \div G
            ELSE StepsIn(i) = {}
      /\ \A i \in 0..(ItersStepped - 1) :
            \A b \in EventsIn("get_batch", i), e \in EventsIn("forward", i) :
               /\ log[e].step = log[b].step
               /\ log[b].step = i \div G

C2_OneStepPerGroup ==
    /\ []C2_OneStepPerGroupInv
    /\ [][/\ step_count' >= step_count
          /\ step_count' <= step_count + 1
          /\ (step_count' # step_count => pc = "step" /\ (iter_num + 1) % G = 0)]_vars

\* two complete groups of four iterations have run
C2_Witness ==
    /\ G = 4 /\ iter_num = 8 /\ pc = "loop" /\ step_count = 2

\* ------------------------------------------------------------------ C3
\* C3: while step_count <= warmup_iters the learning rate written at the
\* start of an iteration is learning_rate * step_count / warmup_iters: 0 at
\* step_count = 0 and exactly learning_rate at step_count = warmup_iters;
\* the learning rates written, iteration by iteration, never decrease.
C3_WarmupMonotone ==
    /\ (pc = "forward" /\ step_count <= hp.warmup_iters) =>
          /\ lr.num * hp.warmup_iters = learning_rate * step_count * lr.den
          /\ (step_count = 0 => lr.num = 0)
          /\ (step_count = hp.warmup_iters => FracEq(lr, BaseLr))
          /\ lr_hist # <<>> /\ lr_hist[Len(lr_hist)].lr = lr
    /\ \A k \in 1..(Len(lr_hist) - 1) :
          /\ lr_hist[k].step <= lr_hist[k + 1].step
          /\ FracLeq(lr_hist[k].lr, lr_hist[k + 1].lr)
    /\ \A k \in DOMAIN lr_hist : FracLeq(lr_hist[k].lr, BaseLr)

\* an iteration starts with step_count = warmup_iters and the rate at its base
C3_Witness ==
    /\ pc = "forward" /\ step_count = hp.warmup_iters /\ step_count > 0
    /\ FracEq(lr, BaseLr) /\ Len(lr_hist) > 2

\* ------------------------------------------------------------------ C4
\* the ratios of the module's hyperparameters: batch_size / micro_batch_size
\* = 16, num_epochs = 5, hence max_iters : warmup_iters = 5 : 2
ModuleRatios ==
    /\ Accepted /\ G = 16 /\ hp.num_epochs = 5
    /\ hp.max_iters >= G /\ 2 * hp.max_iters = 5 * hp.warmup_iters

\* C4 (as stated): in a run with the ratios of the module's hyperparameters
\* the learning rate reaches learning_rate at some iteration and is at
\* learning_rate when the run ends.
C4_WarmupEndsWithinRun ==
    (pc = "done" /\ ModuleRatios) =>
        /\ \E k \in DOMAIN lr_hist : FracEq(lr_hist[k].lr, BaseLr)
        /\ FracEq(lr, BaseLr)

\* ------------------------------------------------------------------ C5
Scenario ==
    /\ hp.micro_batch_size = 2 /\ G = 2 /\ hp.max_iters = 4
    /\ hp.save_interval = 1

\* the checkpoints written by the loop
PeriodicCkpts == SelectSeq(ckpts, LAMBDA c : c.name # FinalCkptName)

\* C5 (as stated): in the scenario the loop takes exactly 2 optimizer steps
\* and saves exactly 1 checkpoint.
C5_OneCheckpointInLoop ==
    (LoopFinished /\ Scenario) =>
        /\ Cardinality(EventsOf("optimizer_step")) = 2
        /\ Len(PeriodicCkpts) = 1

\* C5 (amended): in the scenario the loop takes exactly 2 optimizer steps
\* and saves exactly 2 checkpoints, one after each optimizer step, named by
\* iterations 1 and 3.
C5_TwoCheckpointsInLoop ==
    (LoopFinished /\ Scenario) =>
        /\ Cardinality(EventsOf("optimizer_step")) = 2
        /\ step_count = 2 /\ Len(params) = 2
        /\ Len(PeriodicCkpts) = 2
        /\ PeriodicCkpts[1].name = <<"iter", 1>>
        /\ PeriodicCkpts[2].name = <<"iter", 3>>
        /\ Cardinality(EventsOf("save")) = 2

C5_Witness == pc = "done" /\ Scenario /\ iter_num = 4

\* ------------------------------------------------------------------ C6
\* step_count as reported at the end of iteration i (after its optimizer
\* step, if it has one)
MonitorStep(i) ==
    log[CHOOSE k \in EventsIn("on_train_batch_end", i) : TRUE].step

\* C6: a checkpoint is saved in iteration i exactly when (i + 1) mod G = 0
\* and step_count, as incremented in that iteration, is a multiple of
\* save_interval; it is named by i; an accumulating iteration saves nothing,
\* also while step_count is 0.
C6_PeriodicCheckpoint ==
    Accepted =>
      /\ \A i \in 0..(iter_num - 1) :
            /\ Cardinality(EventsIn("on_train_batch_end", i)) = 1
            /\ LET due == /\ (i + 1) % G = 0
                          /\ MonitorStep(i) % hp.save_interval = 0
                   n == IF due THEN 1 ELSE 0
               IN  /\ Cardinality(EventsIn("save", i)) = n
                   /\ Cardinality({k \in DOMAIN ckpts :
                                     ckpts[k].name = <<"iter", i>>}) = n
      /\ \A k \in DOMAIN PeriodicCkpts :
            \E i \in 0..(iter_num - 1) : PeriodicCkpts[k].name = <<"iter", i>>
      /\ Len(PeriodicCkpts) = Cardinality(EventsOf("save"))
      /\ \A k \in EventsOf("save") :
            log[k].step >= 1 /\ (log[k].iter + 1) % G = 0

\* an accumulating iteration with step_count = 0 saved nothing, iteration 1
\* was not due and iteration 3 saved
C6_Witness ==
    /\ G = 2 /\ hp.save_interval = 2 /\ iter_num = 4 /\ pc = "loop"
    /\ Len(ckpts) = 1 /\ ckpts[1].name = <<"iter", 3>>

\* ------------------------------------------------------------------ C7
\* number of iterations whose validation phase (lines 193-199) is over
ItersValidated == iter_num + (IF pc = "save" THEN 1 ELSE 0)

\* C7: validation runs in iteration i exactly when (i + 1) mod G = 0 and
\* step_count, as incremented in that iteration, is a multiple of
\* eval_interval; a barrier follows it at once, before the save of the same
\* iteration and before the next iteration; over n iterations validation
\* runs floor(floor(n / G) / eval_interval) times, plus the sanity check
\* before the loop.
C7_PeriodicValidation ==
    (Accepted /\ pc \notin {"main", "sanity"}) =>
      /\ \A i \in 0..(ItersValidated - 1) :
            LET due == /\ (i + 1) % G = 0
                       /\ MonitorStep(i) % hp.eval_interval = 0
            IN  Cardinality(EventsIn("validate", i)) = IF due THEN 1 ELSE 0
      /\ \A k \in EventsOf("validate") :
            /\ k + 1 \in DOMAIN log
            /\ log[k + 1].op = "barrier" /\ log[k + 1].iter = log[k].iter
            /\ \A j \in EventsIn("save", log[k].iter) : k + 1 < j
            /\ \A j \in EventsIn("get_batch", log[k].iter + 1) : k + 1 < j
            /\ \A j \in EventsIn("on_train_batch_end", log[k].iter) : j < k
      /\ \A k \in EventsOf("barrier") : k > 1 /\ log[k - 1].op = "validate"
      /\ Cardinality(EventsOf("validate"))
            = (ItersValidated \div G) \div hp.eval_interval
      /\ EventsOf("sanity_validate") = {1}

\* an iteration ran validation, the barrier and then a save, and validation
\* has run twice
C7_Witness ==
    /\ pc = "loop" /\ hp.eval_interval = 2 /\ G > 1
    /\ Cardinality(EventsOf("validate")) = 2
    /\ \E k \in EventsOf("validate") : EventsIn("save", log[k].iter) # {}

\* ------------------------------------------------------------------ C8
FinalCkpts == {k \in DOMAIN ckpts : ckpts[k].name = FinalCkptName}

\* C8: whatever max_iters (0 included), G and save_interval are, a run that
\* leaves the loop saves the final checkpoint exactly once, as its last
\* operation, after every iteration and every periodic save; before that no
\* final checkpoint exists.
C8_FinalCheckpointOnceInv ==
    /\ pc = "done" =>
          /\ Cardinality(FinalCkpts) = 1
          /\ FinalCkpts = {Len(ckpts)}
          /\ EventsOf("final_save") = {Len(log)}
          /\ iter_num = hp.max_iters
          /\ Len(ckpts) = Cardinality(EventsOf("save")) + 1
    /\ pc # "done" => FinalCkpts = {} /\ EventsOf("final_save") = {}

C8_FinalCheckpointOnce ==
    /\ []C8_FinalCheckpointOnceInv
    /\ [][(pc = "loop" /\ iter_num >= hp.max_iters) => pc' = "final_save"]_vars
    /\ [][pc = "final_save" => pc' = "done" /\ Len(ckpts') = Len(ckpts) + 1]_vars

\* the run ended in the middle of a group, after periodic saves
C8_Witness ==
    /\ pc = "done" /\ hp.max_iters % G # 0 /\ hp.max_iters > G
    /\ Len(ckpts) >= 2 /\ ckpts[Len(ckpts)].name = FinalCkptName

\* ------------------------------------------------------------------ C9
\* C9: every optimizer step applies exactly the gradients of the G
\* iterations of its own group; when max_iters mod G = r > 0 the gradients
\* of the last r iterations stay in the buffer, no optimizer step occurs in
\* those iterations or after the loop, and the final checkpoint holds the
\* parameters left by optimizer step floor(max_iters / G).
C9_PartialGroupDiscarded ==
    Accepted =>
      /\ \A k \in DOMAIN params : params[k] = ((k - 1) * G)..(k * G - 1)
      /\ (pc = "done" /\ hp.max_iters % G > 0) =>
            LET r == hp.max_iters % G
                trailing == (hp.max_iters - r)..(hp.max_iters - 1)
                final == ckpts[Len(ckpts)]
            IN  /\ Len(params) = hp.max_iters \div G
                /\ final.name = FinalCkptName
                /\ final.params = params
                /\ Len(final.params) = hp.max_iters \div G
                /\ grads = trailing
                /\ \A i \in trailing :
                      /\ EventsIn("forward", i) # {}
                      /\ EventsIn("optimizer_step", i) = {}
                      /\ \A k \in DOMAIN final.params : i \notin final.params[k]
                /\ \A k \in EventsOf("optimizer_step") :
                      log[k].iter < hp.max_iters - r

\* the run ended with a partial group after at least one complete group
C9_Witness ==
    /\ pc = "done" /\ hp.max_iters % G > 1 /\ Len(params) >= 1
    /\ grads # {}

\* ----------------------------------------------------------------- C10
\* optimizer steps completed in iterations 0..i-1
StepsBefore(i) ==
    Cardinality({k \in EventsOf("optimizer_step") : log[k].iter < i})

\* the place of an operation within its iteration
Rank(op) ==
    CASE op = "sanity_validate" -> 0
      [] op = "get_batch" -> 1
      [] op = "forward" -> 2
      [] op = "optimizer_step" -> 3
      [] op = "on_train_batch_end" -> 4
      [] op = "validate" -> 5
      [] op = "barrier" -> 6
      [] op = "save" -> 7
      [] op = "final_save" -> 8

\* C10: the forward pass of iteration N sees the parameters left by the
\* optimizer steps of iterations 0..N-1; the operations of the log are in
\* iteration order and, within an iteration, in program order; a checkpoint
\* saved in iteration N holds the parameters after that iteration's
\* optimizer step.
C10_SequentialConsistency ==
    Accepted =>
      /\ pc \in {"step", "monitor", "eval", "save"} =>
            /\ Len(seen) = StepsBefore(iter_num)
            /\ Len(seen) = iter_num \div G
            /\ seen = SubSeq(params, 1, StepsBefore(iter_num))
      /\ \A k \in 1..(Len(log) - 1) :
            /\ log[k].iter <= log[k + 1].iter
            /\ log[k].iter = log[k + 1].iter =>
                  Rank(log[k].op) < Rank(log[k + 1].op)
      /\ \A k \in DOMAIN PeriodicCkpts :
            LET c == PeriodicCkpts[k]
                N == c.name[2]
            IN  /\ EventsIn("optimizer_step", N) # {}
                /\ Len(c.params) = StepsBefore(N + 1)
                /\ N \in c.params[Len(c.params)]

\* the forward pass of an iteration after two optimizer steps and a save
C10_Witness ==
    /\ pc = "step" /\ G > 1 /\ Len(seen) = 2 /\ Len(PeriodicCkpts) >= 1

\* ----------------------------------------------------------------- C11
\* a step that calls validate: the sanity check or a due periodic validation
ValidateStep == pc = "sanity" \/ (pc = "eval" /\ log' # log)

\* C11: every call of validate returns with the model in training mode and
\* leaves the parameters, the learning rate, the gradient buffer and
\* step_count unchanged; every training forward pass starts with the model
\* in training mode.
C11_ValidateRestoresTraining ==
    /\ [](pc \in {"loop", "forward", "save"} => training)
    /\ [][ValidateStep =>
            /\ training'
            /\ params' = params /\ grads' = grads /\ seen' = seen
            /\ weights' = weights /\ requires_grad' = requires_grad
            /\ lr' = lr /\ lr_hist' = lr_hist
            /\ step_count' = step_count]_vars

\* a periodic validation has just returned, after two optimizer steps
C11_Witness ==
    /\ pc = "save" /\ EventsIn("validate", iter_num) # {}
    /\ training /\ Len(params) >= 2

\* ----------------------------------------------------------------- C12
\* the adapter parameters and the base parameters of the model
AdapterNames ==
    {<<"transformer", "h", "attn", "adapter_wte", "weight">>,
     <<"transformer", "h", "attn", "gating_factor">>}
BaseNames == ParamNames \ AdapterNames

\* C12: every base parameter keeps the value loaded from the base
\* checkpoint, whatever iterations, optimizer steps, validations and saves
\* have run; every optimizer step changes the adapter parameters, and only
\* them.
C12_BaseParametersFrozen ==
    /\ [](\A n \in BaseNames : weights[n] = <<>>)
    /\ [](\A n \in AdapterNames :
            /\ weights[n] = params
            /\ Len(weights[n]) = Cardinality(EventsOf("optimizer_step")))
    /\ [][\A n \in BaseNames : weights'[n] = weights[n]]_vars

\* two optimizer steps, a validation and a save have run
C12_Witness ==
    /\ pc = "done" /\ Len(params) >= 2 /\ Len(ckpts) >= 2
    /\ EventsOf("validate") # {}
    /\ \A n \in BaseNames : weights[n] = <<>>
    /\ \A n \in AdapterNames : Len(weights[n]) >= 2

\* ----------------------------------------------------------------- C13
\* C13: every checkpoint written, periodic or final, holds exactly the
\* adapter parameters: no base parameter and every adapter parameter, each
\* with its value at the time of the save.
C13_CheckpointAdapterOnly ==
    \A k \in DOMAIN ckpts :
       /\ DOMAIN ckpts[k].state = AdapterNames
       /\ DOMAIN ckpts[k].state \cap BaseNames = {}
       /\ \A n \in AdapterNames : ckpts[k].state[n] = ckpts[k].params

\* periodic checkpoints and the final one have been written
C13_Witness ==
    /\ pc = "done" /\ Len(PeriodicCkpts) >= 2
    /\ ckpts[Len(ckpts)].name = FinalCkptName
    /\ DOMAIN ckpts[1].state = AdapterNames

\* ----------------------------------------------------------------- C15
\* number of iterations whose instrumentation (lines 177-191) is over
ItersReported == iter_num + (IF pc \in {"eval", "save"} THEN 1 ELSE 0)

RECURSIVE SumSeq(_, _)
\* the sum of the first n entries of the sequence q
SumSeq(q, n) == IF n = 0 THEN 0 ELSE q[n] + SumSeq(q, n - 1)

\* C16 (as stated): the elapsed training time of every report leaves out
\* the time spent in the validation runs that came before it.
C16_EvalTimeExcluded ==
    \A k \in DOMAIN reports :
       reports[k].elapsed
          <= (reports[k].t1 - total_t0) - SumSeq(eval_ends, reports[k].evals)

\* ----------------------------------------------------------------- C17
\* C17: at the start of iteration i the gradient buffer holds exactly the
\* contributions of the i mod G earlier iterations of its group, each scaled
\* by 1/G; every optimizer step applies exactly the G contributions of its
\* own group; the buffer is empty after every optimizer step; gradients are
\* synchronized in exactly the non-accumulating iterations, before the
\* optimizer step.
C17_GradientAccumulationInv ==
    Accepted =>
      /\ pc = "forward" =>
            grads = (iter_num - (iter_num % G))..(iter_num - 1)
      /\ pc = "loop" =>
            grads = (iter_num - (iter_num % G))..(iter_num - 1)
      /\ \A k \in DOMAIN backward_calls :
            /\ backward_calls[k].iter = k - 1
            /\ backward_calls[k].div = G
            /\ backward_calls[k].sync <=> (k % G = 0)
      /\ \A k \in DOMAIN params :
            /\ Cardinality(params[k]) = G
            /\ \A i \in params[k] : (i \div G) + 1 = k
      /\ \A e \in EventsOf("optimizer_step") :
            /\ Len(backward_calls) >= log[e].iter + 1
            /\ backward_calls[log[e].iter + 1].sync
      /\ (pc = "monitor" /\ (iter_num + 1) % G = 0) => grads = {}

C17_GradientAccumulation ==
    /\ []C17_GradientAccumulationInv
    /\ [][step_count' # step_count => grads' = {}]_vars

\* the third iteration of the second group of four is about to run
C17_Witness ==
    /\ pc = "forward" /\ G = 4 /\ iter_num = 6 /\ grads = {4, 5}
    /\ Len(params) = 1

\* ----------------------------------------------------------------- C19
RECURSIVE DigitsValue(_)
\* the number written by the decimal digits d
DigitsValue(d) ==
    IF d = <<>> THEN 0
    ELSE 10 * DigitsValue(SubSeq(d, 1, Len(d) - 1)) + d[Len(d)]

\* the iteration index written in the file name of a periodic checkpoint
PathIter(p) == DigitsValue(SubSeq(p, 2, Len(p) - 1))

\* what the file p holds: the parameters of the last write to it
FileContent(p) ==
    LET k == CHOOSE i \in DOMAIN ckpts :
                /\ ckpts[i].path = p
                /\ \A j \in DOMAIN ckpts : ckpts[j].path = p => j <= i
    IN  ckpts[k].params

\* C19: no two checkpoints of a run are written to the same file: periodic
\* checkpoints carry their own iteration index in the name and the final
\* one has a name of its own; hence, at every point of the run, every
\* periodic checkpoint file, the most recent one included, holds the
\* parameters left by the optimizer step of the iteration that names it.
C19_NoCheckpointOverwritten ==
    /\ \A j, k \in DOMAIN ckpts : j # k => ckpts[j].path # ckpts[k].path
    /\ \A k \in DOMAIN ckpts :
          ckpts[k].name # FinalCkptName =>
            LET c == ckpts[k]
                N == PathIter(c.path)
            IN  /\ c.path # <<"lit_model_adapter_finetuned.pth">>
                /\ Len(c.path) = 8
                /\ N < iter_num /\ (N + 1) % G = 0
                /\ EventsIn("save", N) # {}
                /\ Len(FileContent(c.path)) = (N + 1) \div G
                /\ Len(FileContent(c.path)) = StepsBefore(N + 1)
                /\ N \in FileContent(c.path)[(N + 1) \div G]

\* three periodic checkpoints and the final one have been written
C19_Witness ==
    /\ pc = "done" /\ Len(PeriodicCkpts) >= 3
    /\ PathIter(PeriodicCkpts[3].path) > PathIter(PeriodicCkpts[1].path)

\* ----------------------------------------------------------------- C14
\* the sequences drawn by the call
SampledInputs == [r \in DOMAIN batch_out.ix |-> batch_in.data[batch_out.ix[r]].input_ids]
SampledLabels == [r \in DOMAIN batch_out.ix |-> batch_in.data[batch_out.ix[r]].labels]

\* the row length of the batch: the longest sampled input_ids, or
\* max_seq_length on xla
RowLen ==
    IF batch_in.device = "xla" THEN batch_in.max_seq_length
    ELSE CHOOSE n \in 0..MaxSeqLen + 1 :
            /\ \A r \in DOMAIN SampledInputs : Len(SampledInputs[r]) <= n
            /\ \E r \in DOMAIN SampledInputs : Len(SampledInputs[r]) = n

\* row is seq followed by padding pad up to length n
PaddedTo(row, seq, pad, n) ==
    /\ Len(row) = n
    /\ Len(seq) <= n
    /\ \A j \in 1..Len(seq) : row[j] = seq[j]
    /\ \A j \in (Len(seq) + 1)..n : row[j] = pad

\* the batch has micro_batch_size rows of length RowLen, each the drawn
\* sequence followed by padding, 0 for inputs and -1 for targets
WellFormedBatch ==
    /\ batch_out.status = "ok"
    /\ DOMAIN batch_out.x = 1..batch_in.micro_batch_size
    /\ DOMAIN batch_out.y = 1..batch_in.micro_batch_size
    /\ \A r \in 1..batch_in.micro_batch_size :
          /\ PaddedTo(batch_out.x[r], SampledInputs[r], 0, RowLen)
          /\ PaddedTo(batch_out.y[r], SampledLabels[r], -1, RowLen)
          /\ Len(batch_out.x[r]) = Len(batch_out.y[r])

\* no drawn sequence, input_ids or labels, is longer than the row length
SampleFits ==
    \A r \in DOMAIN batch_out.ix :
       Len(SampledInputs[r]) <= RowLen /\ Len(SampledLabels[r]) <= RowLen

\* C14 (as stated): for every dataset, micro_batch_size and draw, get_batch
\* returns without error two tensors of shape micro_batch_size x L, each row
\* the drawn sequence followed by padding.
C14_GetBatchAlwaysReturns ==
    batch_out.status # "none" => WellFormedBatch

\* C14 (amended): get_batch returns such a batch exactly when no drawn
\* labels or input_ids sequence is longer than L; otherwise it raises; the
\* dataset is not modified.
C14_GetBatchWhenSampleFitsInv ==
    batch_out.status # "none" =>
       /\ SampleFits => WellFormedBatch
       /\ ~SampleFits => batch_out.status = "error"

C14_GetBatchWhenSampleFits ==
    /\ []C14_GetBatchWhenSampleFitsInv
    /\ [][batch_in' = batch_in]_vars

\* a batch of two rows of different lengths, both padded
C14_Witness ==
    /\ batch_out.status = "ok" /\ batch_in.device = "cuda"
    /\ batch_in.micro_batch_size = 2
    /\ Len(SampledInputs[1]) = 1 /\ Len(SampledInputs[2]) = 2
    /\ batch_out.x[1] = <<1, 0>> /\ batch_out.y[1] = <<1, -1>>

\* ----------------------------------------------------------------- C18
\* C18 (safety): two workers that are both inside a collective operation
\* are in the same one, in the same iteration and with the same
\* step_count; every completed collective was entered by all workers in one
\* iteration with one step_count.
C18_CollectivesAligned ==
    /\ \A v, w \in Workers :
          (workers[v].pc \in CollectivePcs /\ workers[w].pc \in CollectivePcs) =>
             /\ workers[v].pc = workers[w].pc
             /\ workers[v].iter_num = workers[w].iter_num
             /\ workers[v].step_count = workers[w].step_count
    /\ \A k \in DOMAIN collectives :
          /\ Cardinality(collectives[k].iters) = 1
          /\ Cardinality(collectives[k].steps) = 1
    /\ \A w \in Workers :
          workers[w].iter_num <= hp.max_iters

\* every worker has run all iterations and left the final save
AllWorkersDone ==
    /\ \A w \in Workers :
          workers[w].pc = "done" /\ workers[w].iter_num = hp.max_iters
    /\ collectives # <<>>
    /\ collectives[Len(collectives)].kind = "final"

\* C18: under any interleaving the workers enter the collective operations
\* in the same iterations and the same order, with equal step_count; no
\* worker waits forever and, under fair scheduling, every worker completes
\* max_iters iterations and the final checkpoint save.
C18_WorkersStayAlignedAndFinish ==
    /\ []C18_CollectivesAligned
    /\ <>AllWorkersDone

\* after a barrier one worker is an iteration ahead of another
C18_Witness ==
    /\ \E k \in DOMAIN collectives : collectives[k].kind = "barrier"
    /\ \E v, w \in Workers : workers[v].iter_num > workers[w].iter_num
    /\ \E w \in Workers : workers[w].pc = "sync" /\ workers[w].iter_num > 0
====
